---- MODULE Spec2Model ----
(***************************************************************************)
(* ReadifyFont-Qt.py: the RF_Qt main window.  The window's widgets and the *)
(* FontInfo object are the state; every Qt slot (set_family_name,          *)
(* load_fonts, gen_ttf, manage_proc, read_proc_output, ...) is an action.  *)
(* QProcess is modelled by what Qt does with it: start() from NotRunning   *)
(* goes to Starting, then started() or error(FailedToStart); readyRead()   *)
(* while Running; on exit finished(), preceded by error(Crashed) when the  *)
(* child crashed.  All slots run on the GUI thread, one at a time; the     *)
(* only place where process signals are delivered in the middle of a slot  *)
(* is the modal save-directory dialog of gen_ttf (a nested event loop),    *)
(* which is why gen_ttf is two steps.                                      *)
(***************************************************************************)
EXTENDS Integers, Sequences, FiniteSets, TLC

VARIABLES
    font_files,        \* self.font_files: the loaded paths, NoFiles for None
    combo_index,       \* fnt_sty_combo_list[i].currentIndex()
    combo_enabled,     \* fnt_sty_combo_list[i].isEnabled()
    new_fnt_name,      \* new_fnt_name.text()
    gen_ttf_btn,       \* gen_ttf_btn.isEnabled()
    font_info,         \* self.font_info (FontInfo)
    darken_opt,        \* darken_opt.isChecked()
    mod_bearing_opt,   \* mod_bearing_opt: [checked, enabled]
    darken_amount_opt, \* darken_amount_opt: [value, enabled]
    darken_amount_lab, \* the number shown by darken_amount_lab
    hint_opt,          \* index of the checked radio button of hint_opt_list
    basic_opt,         \* basic_opt_list[i].isChecked()
    ff_path,           \* self.ff_path, NoPath for None
    proc_state,        \* cli_process.state()
    proc_args,         \* the arguments the process in flight was started with
    exit_code,         \* cli_process.exitCode()
    prog_bar,          \* prog_bar: [min, max, value]
    log_win,           \* the paragraphs of log_win
    job_notes,         \* since the last accepted start: "start", then per slot call of
                       \* cli_process "output" (read_proc_output) or the state
                       \* manage_proc found the process in
    pc                 \* "idle", or "save_dir" while gen_ttf waits in its directory dialog

vars == <<font_files, combo_index, combo_enabled, new_fnt_name, gen_ttf_btn,
          font_info, darken_opt, mod_bearing_opt, darken_amount_opt,
          darken_amount_lab, hint_opt, basic_opt, ff_path, proc_state,
          proc_args, exit_code, prog_bar, log_win, job_notes, pc>>

fileVars == <<font_files, combo_index, combo_enabled>>
optVars  == <<darken_opt, mod_bearing_opt, darken_amount_opt, darken_amount_lab,
              hint_opt, basic_opt>>
procVars == <<proc_state, proc_args, exit_code, prog_bar, job_notes>>

----------------------------------------------------------------------------
(* Program constants *)

SEL_REGULAR == 1
SEL_ITALIC == 2
SEL_BOLD == 3
SEL_BOLDITALIC == 4
SEL_NONE == 0

\* len(self.fnt_styles): the number of label / combo box rows
NumRows == 4

\* darken_amount_opt: setMinimum, setMaximum, setValue
DarkenMin == 1
DarkenMax == 50
DarkenDefault == 12

\* prog_bar.setRange(0,100) / setValue(100)
ProgMax == 100

----------------------------------------------------------------------------
(* Bounds of the model *)

\* the largest number of files one Load Fonts dialog returns
MaxFiles == 2
\* the largest number of readyRead notifications of one job
MaxOutput == 2

----------------------------------------------------------------------------
(* Values *)

NoFiles == <<>>
NoFile == [dir |-> <<>>, name |-> <<>>]
NoPath == ""
NoDir == ""

Rows == 1..NumRows

\* str.lower() on the tokens file names and option texts are made of
Lower(tok) ==
    CASE tok \in {"Bold", "BOLD", "bold"} -> "bold"
      [] tok \in {"Italic", "ITALIC", "italic"} -> "italic"
      [] tok \in {"Regular", "REGULAR", "regular"} -> "regular"
      [] tok \in {"Keep", "keep"} -> "keep"
      [] tok \in {"Remove", "remove"} -> "remove"
      [] tok \in {"Auto", "auto"} -> "auto"
      [] tok \in {"Kerning", "kerning"} -> "kerning"
      [] tok \in {"PANOSE", "panose"} -> "panose"
      [] tok \in {"Alt", "alt"} -> "alt"
      [] OTHER -> tok

\* word in text.lower(), for a text given as its sequence of tokens
Contains(text, word) == \E i \in 1..Len(text) : Lower(text[i]) = word

\* os.path.split(os.path.normpath(file))[1]: the file name component
FileName(file) == file.name

Min(a, b) == IF a < b THEN a ELSE b

Max(S) == CHOOSE x \in S : \A y \in S : y <= x

\* os.path.normpath on a dialog's answer: the empty answer of a cancelled dialog becomes "."
Normpath(path) == IF path = "" THEN "." ELSE path

----------------------------------------------------------------------------
(* helper.valid_filename: a non-blank name without a file system reserved  *)
(* character.  Names are sequences of characters.                          *)

ReservedChars == {"/", "\\", ":", "*", "?", "\"", "<", ">", "|"}

valid_filename(name) ==
    /\ name # <<>>
    /\ \A i \in 1..Len(name) : name[i] \notin ReservedChars
    /\ \E i \in 1..Len(name) : name[i] # " "

----------------------------------------------------------------------------
(* FontInfo *)

\* FontInfo(): the fields RF_Qt reads or writes, before any handler ran
FontInfoInit ==
    [font_name |-> <<>>, out_dir |-> NoDir,
     font_file_reg |-> NoFile, font_file_it |-> NoFile,
     font_file_bd |-> NoFile, font_file_bi |-> NoFile,
     leg_kern |-> FALSE, strip_panose |-> FALSE, name_hack |-> FALSE,
     change_hint |-> "keep", add_weight |-> 0, mod_bearings |-> FALSE]

NoArgs == [ok |-> FALSE, name |-> <<>>, files |-> <<>>, flags |-> {}, darken |-> 0,
           out_dir |-> NoDir]

\* FontInfo.gen_cli_command: the argument vector, as the family name, the
\* files of the assigned slots in slot order, the set of flags, the amount
\* that follows --darken (0 without that flag) and the output directory; ok
\* is FALSE for ConfigIncomplete
gen_cli_command(info) ==
    LET assigned == SelectSeq(<<info.font_file_reg, info.font_file_it,
                                info.font_file_bd, info.font_file_bi>>,
                              LAMBDA f : f # NoFile)
        darkenEnabled == info.add_weight # 0
    IN  [ok |-> /\ assigned # <<>>
                /\ valid_filename(info.font_name)
                /\ info.out_dir # NoDir,
         name |-> info.font_name,
         files |-> assigned,
         flags |-> {"--hint-" \o info.change_hint}
                   \cup (IF info.leg_kern THEN {"--legacy-kerning"} ELSE {})
                   \cup (IF info.strip_panose THEN {"--strip-panose"} ELSE {})
                   \cup (IF info.name_hack THEN {"--alt-name"} ELSE {})
                   \cup (IF darkenEnabled THEN {"--darken"} ELSE {})
                   \cup (IF darkenEnabled /\ info.mod_bearings
                         THEN {"--fix-bearings"} ELSE {}),
         darken |-> IF darkenEnabled THEN info.add_weight ELSE 0,
         out_dir |-> info.out_dir]

----------------------------------------------------------------------------
(* QProgressBar *)

\* QProgressBar.setRange: a value outside the new range is reset to minimum - 1
SetRange(bar, lo, hi) ==
    IF lo = bar.min /\ hi = bar.max THEN bar
    ELSE [min |-> lo, max |-> hi,
          value |-> IF bar.value < lo - 1 \/ bar.value > hi THEN lo - 1 ELSE bar.value]

\* QProgressBar.setValue: ignored outside the range, unless the range is (0,0)
SetValue(bar, v) ==
    IF (v > bar.max \/ v < bar.min) /\ (bar.max # 0 \/ bar.min # 0) THEN bar
    ELSE [bar EXCEPT !.value = v]

\* manage_proc without its setValue(100)
manage_proc_no_value(state, bar) ==
    LET running == IF state = "Running" THEN SetRange(bar, 0, 0) ELSE bar
    IN  IF state = "NotRunning" THEN SetRange(running, 0, ProgMax) ELSE running

\* manage_proc without its setRange(0,100)
manage_proc_stays_busy(state, bar) ==
    LET running == IF state = "Running" THEN SetRange(bar, 0, 0) ELSE bar
    IN  IF state = "NotRunning" THEN SetValue(running, ProgMax) ELSE running

\* manage_proc, for the state the sending QProcess is in
manage_proc(state, bar) ==
    LET running == IF state = "Running" THEN SetRange(bar, 0, 0) ELSE bar
    IN  IF state = "NotRunning"
        THEN SetValue(SetRange(running, 0, ProgMax), ProgMax)
        ELSE running

\* the progress bar shows the busy indicator
Busy(bar) == bar.min = 0 /\ bar.max = 0

----------------------------------------------------------------------------
(* Init: the window after RF_Qt.__init__ *)

\* the texts of basic_opt_list, as tokens
BasicTexts == <<<<"Legacy", "Kerning">>, <<"Clear", "PANOSE">>, <<"Alt", ".", "Name">>>>

\* helper.which('fontforge'), or else what the user located in set_ff_path
FFPaths == {"fontforge"}

Init ==
    /\ font_files = NoFiles
    /\ combo_index = [i \in Rows |-> SEL_NONE]
    /\ combo_enabled = [i \in Rows |-> FALSE]
    /\ new_fnt_name = <<>>
    /\ gen_ttf_btn = FALSE
    /\ font_info = FontInfoInit
    /\ darken_opt = FALSE
    /\ mod_bearing_opt = [checked |-> FALSE, enabled |-> FALSE]
    /\ darken_amount_opt = [value |-> DarkenDefault, enabled |-> FALSE]
    /\ darken_amount_lab = DarkenDefault
    /\ hint_opt = 1
    /\ basic_opt = [i \in 1..Len(BasicTexts) |-> FALSE]
    /\ ff_path \in FFPaths \cup {NoPath}
    /\ proc_state = "NotRunning"
    /\ proc_args = NoArgs
    /\ exit_code = 0
    /\ prog_bar = [min |-> 0, max |-> ProgMax, value |-> 0 - 1]
    /\ log_win = <<>>
    /\ job_notes = <<>>
    /\ pc = "idle"

----------------------------------------------------------------------------
(* Font files and family name *)

\* AutoStyle with the test for regular moved behind the other three
AutoStyle_regular_last(f_file) ==
    IF Contains(f_file, "bold") /\ Contains(f_file, "italic") THEN SEL_BOLDITALIC
    ELSE IF Contains(f_file, "bold") THEN SEL_BOLD
    ELSE IF Contains(f_file, "italic") THEN SEL_ITALIC
    ELSE IF Contains(f_file, "regular") THEN SEL_REGULAR
    ELSE SEL_NONE

\* load_fonts, lines 342-349: the index the combo box of a loaded file gets
AutoStyle(f_file) ==
    IF Contains(f_file, "regular") THEN SEL_REGULAR
    ELSE IF Contains(f_file, "bold") /\ Contains(f_file, "italic") THEN SEL_BOLDITALIC
    ELSE IF Contains(f_file, "bold") THEN SEL_BOLD
    ELSE IF Contains(f_file, "italic") THEN SEL_ITALIC
    ELSE SEL_NONE

\* load_fonts without the loop that resets every row first
load_fonts_no_reset(f_f) ==
    /\ pc = "idle"
    /\ IF f_f # <<>>
       THEN /\ font_files' = f_f
            /\ combo_index' = [i \in Rows |->
                                 IF i <= Len(f_f) THEN AutoStyle(FileName(f_f[i]))
                                 ELSE combo_index[i]]
            /\ combo_enabled' = [i \in Rows |-> i <= Len(f_f) \/ combo_enabled[i]]
            /\ gen_ttf_btn' = IF new_fnt_name # <<>> THEN TRUE ELSE gen_ttf_btn
       ELSE UNCHANGED <<fileVars, gen_ttf_btn>>
    /\ UNCHANGED <<new_fnt_name, font_info, optVars, ff_path, procVars, log_win, pc>>

\* load_fonts, with f_f the files chosen in the dialog (empty when cancelled)
load_fonts(f_f) ==
    /\ pc = "idle"
    /\ IF f_f # <<>>
       THEN /\ font_files' = f_f
            /\ combo_index' = [i \in Rows |->
                                 IF i <= Len(f_f) THEN AutoStyle(FileName(f_f[i]))
                                 ELSE SEL_NONE]
            /\ combo_enabled' = [i \in Rows |-> i <= Len(f_f)]
            /\ gen_ttf_btn' = IF new_fnt_name # <<>> THEN TRUE ELSE gen_ttf_btn
       ELSE UNCHANGED <<fileVars, gen_ttf_btn>>
    /\ UNCHANGED <<new_fnt_name, font_info, optVars, ff_path, procVars, log_win, pc>>

\* the user picks entry sel in the style combo box of row i
select_style(i, sel) ==
    /\ pc = "idle"
    /\ combo_enabled[i]
    /\ combo_index' = [combo_index EXCEPT ![i] = sel]
    /\ UNCHANGED <<font_files, combo_enabled, new_fnt_name, gen_ttf_btn, font_info,
                   optVars, ff_path, procVars, log_win, pc>>

\* set_family_name that enables the button without looking at font_files
set_family_name_no_files_test(name) ==
    /\ pc = "idle"
    /\ new_fnt_name' = name
    /\ IF name # <<>>
       THEN IF valid_filename(name)
            THEN /\ font_info' = [font_info EXCEPT !.font_name = name]
                 /\ gen_ttf_btn' = TRUE
            ELSE /\ gen_ttf_btn' = FALSE
                 /\ UNCHANGED font_info
       ELSE /\ gen_ttf_btn' = FALSE
            /\ UNCHANGED font_info
    /\ UNCHANGED <<fileVars, optVars, ff_path, procVars, log_win, pc>>

\* set_family_name, called with the text the user edited the line to
set_family_name(name) ==
    /\ pc = "idle"
    /\ new_fnt_name' = name
    /\ IF name # <<>>
       THEN IF valid_filename(name)
            THEN /\ font_info' = [font_info EXCEPT !.font_name = name]
                 /\ gen_ttf_btn' = IF font_files # NoFiles THEN TRUE ELSE gen_ttf_btn
            ELSE /\ gen_ttf_btn' = FALSE
                 /\ UNCHANGED font_info
       ELSE /\ gen_ttf_btn' = FALSE
            /\ UNCHANGED font_info
    /\ UNCHANGED <<fileVars, optVars, ff_path, procVars, log_win, pc>>

----------------------------------------------------------------------------
(* Darken options *)

\* set_darken_amount: the label and FontInfo take the amount
set_darken_amount(info, amount) == [info EXCEPT !.add_weight = amount]

\* a toggle that keeps the slider's amount when darken is switched off
darken_amount_kept(checked, value) == value

\* set_darken_opt, lines 302 and 308: the amount it passes to set_darken_amount
darken_amount_arg(checked, value) == IF checked THEN value ELSE 0

\* set_darken_opt, called when the user toggles the Darken Font check box
set_darken_opt ==
    /\ pc = "idle"
    /\ darken_opt' = ~darken_opt
    /\ mod_bearing_opt' = [mod_bearing_opt EXCEPT !.enabled = darken_opt']
    /\ darken_amount_opt' = [darken_amount_opt EXCEPT !.enabled = darken_opt']
    /\ darken_amount_lab' = darken_amount_arg(darken_opt', darken_amount_opt.value)
    /\ font_info' = set_darken_amount(font_info,
                                      darken_amount_arg(darken_opt', darken_amount_opt.value))
    /\ UNCHANGED <<fileVars, new_fnt_name, gen_ttf_btn, hint_opt, basic_opt, ff_path,
                   procVars, log_win, pc>>

\* the user moves the enabled slider to amount: valueChanged -> set_darken_amount
move_darken_amount(amount) ==
    /\ pc = "idle"
    /\ darken_amount_opt.enabled
    /\ amount # darken_amount_opt.value
    /\ darken_amount_opt' = [darken_amount_opt EXCEPT !.value = amount]
    /\ darken_amount_lab' = amount
    /\ font_info' = set_darken_amount(font_info, amount)
    /\ UNCHANGED <<fileVars, new_fnt_name, gen_ttf_btn, darken_opt, mod_bearing_opt,
                   hint_opt, basic_opt, ff_path, procVars, log_win, pc>>

\* set_mod_bearing, called when the user toggles the enabled Modify Bearings check box
set_mod_bearing ==
    /\ pc = "idle"
    /\ mod_bearing_opt.enabled
    /\ mod_bearing_opt' = [mod_bearing_opt EXCEPT !.checked = ~mod_bearing_opt.checked]
    /\ font_info' = [font_info EXCEPT !.mod_bearings = mod_bearing_opt'.checked]
    /\ UNCHANGED <<fileVars, new_fnt_name, gen_ttf_btn, darken_opt, darken_amount_opt,
                   darken_amount_lab, hint_opt, basic_opt, ff_path, procVars, log_win, pc>>

----------------------------------------------------------------------------
(* Basic options and hinting *)

\* set_basic_opt, for a sender with this text and check state.  No signal
\* of the check boxes of basic_opt_list is connected to it (lines 107-110).
set_basic_opt(info, text, checked) ==
    [info EXCEPT
       !.leg_kern = IF Contains(text, "kerning") THEN checked ELSE @,
       !.strip_panose = IF Contains(text, "panose") THEN checked ELSE @,
       !.name_hack = IF Contains(text, "alt") THEN checked ELSE @]

\* the user toggles check box i of basic_opt_list: no slot runs
toggle_basic_opt(i) ==
    /\ pc = "idle"
    /\ basic_opt' = [basic_opt EXCEPT ![i] = ~basic_opt[i]]
    /\ UNCHANGED <<fileVars, new_fnt_name, gen_ttf_btn, font_info, darken_opt,
                   mod_bearing_opt, darken_amount_opt, darken_amount_lab, hint_opt,
                   ff_path, procVars, log_win, pc>>

\* the texts of hint_opt_list, as tokens
HintTexts == <<<<"Keep", "Existing">>, <<"Remove", "Existing">>, <<"Auto", "Hint">>>>

\* set_hint that tells the three buttons apart by the word "existing" first
set_hint_existing(info, text, checked) ==
    IF ~checked THEN info
    ELSE IF Contains(text, "existing") THEN [info EXCEPT !.change_hint = "keep"]
    ELSE IF Contains(text, "remove") THEN [info EXCEPT !.change_hint = "remove"]
    ELSE IF Contains(text, "auto") THEN [info EXCEPT !.change_hint = "auto"]
    ELSE info

\* set_hint, for a sender with this text and check state
set_hint(info, text, checked) ==
    IF ~checked THEN info
    ELSE IF Contains(text, "keep") THEN [info EXCEPT !.change_hint = "keep"]
    ELSE IF Contains(text, "remove") THEN [info EXCEPT !.change_hint = "remove"]
    ELSE IF Contains(text, "auto") THEN [info EXCEPT !.change_hint = "auto"]
    ELSE info

\* the user selects radio button j of hint_opt_list: the button checked so
\* far is unchecked and emits toggled, then button j emits toggled
select_hint(j) ==
    /\ pc = "idle"
    /\ j # hint_opt
    /\ hint_opt' = j
    /\ font_info' = set_hint(set_hint(font_info, HintTexts[hint_opt], FALSE),
                             HintTexts[j], TRUE)
    /\ UNCHANGED <<fileVars, new_fnt_name, gen_ttf_btn, darken_opt, mod_bearing_opt,
                   darken_amount_opt, darken_amount_lab, basic_opt, ff_path,
                   procVars, log_win, pc>>

----------------------------------------------------------------------------
(* Generation *)

\* a start that is accepted whatever the process does
AlwaysStart(state) == TRUE

\* QProcess.start: refused (with a warning) unless the process is NotRunning
CanStart(state) == state = "NotRunning"

\* gen_ttf, lines 403-411: the file a slot field holds after the loop; of
\* several rows with the same selection the last one stays
SlotFile(old, files, index, sel) ==
    LET hits == {i \in 1..Min(Len(files), NumRows) : index[i] = sel}
    IN  IF hits = {} THEN old ELSE files[Max(hits)]

\* gen_ttf that takes a request only as long as no job was ever started
gen_ttf_click_first_job_only(path) ==
    /\ pc = "idle"
    /\ gen_ttf_btn
    /\ job_notes = <<>>
    /\ log_win' = <<>>
    /\ ff_path' = IF ff_path = NoPath /\ path # "" THEN path ELSE ff_path
    /\ pc' = IF ff_path' # NoPath THEN "save_dir" ELSE "idle"
    /\ UNCHANGED <<fileVars, new_fnt_name, gen_ttf_btn, font_info, optVars, procVars>>

\* gen_ttf that asks for the directory without looking at ff_path
gen_ttf_click_no_path_test(path) ==
    /\ pc = "idle"
    /\ gen_ttf_btn
    /\ log_win' = <<>>
    /\ ff_path' = IF ff_path = NoPath /\ path # "" THEN path ELSE ff_path
    /\ pc' = "save_dir"
    /\ UNCHANGED <<fileVars, new_fnt_name, gen_ttf_btn, font_info, optVars, procVars>>

\* gen_ttf up to its directory dialog; path is what the user locates when
\* fontforge is missing
gen_ttf_click(path) ==
    /\ pc = "idle"
    /\ gen_ttf_btn
    /\ log_win' = <<>>
    /\ ff_path' = IF ff_path = NoPath /\ path # "" THEN path ELSE ff_path
    /\ pc' = IF ff_path' # NoPath THEN "save_dir" ELSE "idle"
    /\ UNCHANGED <<fileVars, new_fnt_name, gen_ttf_btn, font_info, optVars, procVars>>

\* gen_ttf from the answer of its directory dialog on
gen_ttf_dir(dir) ==
    /\ pc = "save_dir"
    /\ pc' = "idle"
    /\ LET save_dir == Normpath(dir) IN
       IF save_dir = "." \/ save_dir = ""
       THEN UNCHANGED <<font_info, procVars>>
       ELSE LET info == [font_info EXCEPT
                           !.out_dir = save_dir,
                           !.font_file_reg = SlotFile(@, font_files, combo_index, SEL_REGULAR),
                           !.font_file_bi = SlotFile(@, font_files, combo_index, SEL_BOLDITALIC),
                           !.font_file_bd = SlotFile(@, font_files, combo_index, SEL_BOLD),
                           !.font_file_it = SlotFile(@, font_files, combo_index, SEL_ITALIC)]
                cli_opt_list == gen_cli_command(info)
            IN  /\ font_info' = info
                /\ IF CanStart(proc_state) /\ cli_opt_list.ok
                   THEN /\ proc_state' = "Starting"
                        /\ proc_args' = cli_opt_list
                        /\ job_notes' = <<"start">>
                        /\ UNCHANGED <<exit_code, prog_bar>>
                   ELSE UNCHANGED procVars
    /\ UNCHANGED <<fileVars, new_fnt_name, gen_ttf_btn, optVars, ff_path, log_win>>

----------------------------------------------------------------------------
(* cli_process signals *)

\* started: the child runs
ProcStarted ==
    /\ proc_state = "Starting"
    /\ proc_state' = "Running"
    /\ prog_bar' = manage_proc("Running", prog_bar)
    /\ job_notes' = Append(job_notes, "Running")
    /\ UNCHANGED <<fileVars, new_fnt_name, gen_ttf_btn, font_info, optVars, ff_path,
                   proc_args, exit_code, log_win, pc>>

\* error(FailedToStart): the program could not be launched
ProcFailedToStart ==
    /\ proc_state = "Starting"
    /\ proc_state' = "NotRunning"
    /\ proc_args' = NoArgs
    /\ prog_bar' = manage_proc("NotRunning", prog_bar)
    /\ job_notes' = Append(job_notes, "NotRunning")
    /\ UNCHANGED <<fileVars, new_fnt_name, gen_ttf_btn, font_info, optVars, ff_path,
                   exit_code, log_win, pc>>

\* readyRead -> read_proc_output, with output what the child wrote
read_proc_output(output) ==
    /\ proc_state = "Running"
    /\ log_win' = Append(log_win, output)
    /\ job_notes' = Append(job_notes, "output")
    /\ UNCHANGED <<fileVars, new_fnt_name, gen_ttf_btn, font_info, optVars, ff_path,
                   proc_state, proc_args, exit_code, prog_bar, pc>>

\* finished: the child exited with code
ProcFinished(code) ==
    /\ proc_state = "Running"
    /\ proc_state' = "NotRunning"
    /\ proc_args' = NoArgs
    /\ exit_code' = code
    /\ prog_bar' = manage_proc("NotRunning", prog_bar)
    /\ job_notes' = Append(job_notes, "NotRunning")
    /\ UNCHANGED <<fileVars, new_fnt_name, gen_ttf_btn, font_info, optVars, ff_path,
                   log_win, pc>>

\* the child crashed: error(Crashed) while the state is still Running, then
\* finished
ProcCrashed(code) ==
    /\ proc_state = "Running"
    /\ proc_state' = "NotRunning"
    /\ proc_args' = NoArgs
    /\ exit_code' = code
    /\ prog_bar' = manage_proc("NotRunning", manage_proc("Running", prog_bar))
    /\ job_notes' = job_notes \o <<"Running", "NotRunning">>
    /\ UNCHANGED <<fileVars, new_fnt_name, gen_ttf_btn, font_info, optVars, ff_path,
                   log_win, pc>>

\* closeEvent that accepts the event without cli_process.close()
closeEvent_accept_only(launched, output, code) ==
    /\ pc = "idle"
    /\ pc' = "closed"
    /\ UNCHANGED <<fileVars, new_fnt_name, gen_ttf_btn, font_info, optVars, ff_path,
                   procVars, log_win>>

\* closeEvent that kills the child and accepts the event without waiting
\* for the child to be gone
closeEvent_no_wait(launched, output, code) ==
    /\ pc = "idle"
    /\ pc' = "closed"
    /\ job_notes' = IF proc_state = "NotRunning" THEN job_notes
                    ELSE Append(job_notes, "close")
    /\ UNCHANGED <<fileVars, new_fnt_name, gen_ttf_btn, font_info, optVars, ff_path,
                   proc_state, proc_args, exit_code, prog_bar, log_win>>

\* closeEvent: cli_process.close() kills the child and waits until it is
\* gone, delivering its last signals to manage_proc and read_proc_output
\* meanwhile; then the event is accepted.  A child still Starting either
\* gets launched first (launched) or fails to start; output is what was
\* left to read when the child died ("" for nothing), code its exit code.
closeEvent(launched, output, code) ==
    /\ pc = "idle"
    /\ pc' = "closed"
    /\ IF proc_state = "NotRunning"
       THEN UNCHANGED <<procVars, log_win>>
       ELSE LET ran == proc_state = "Running" \/ launched
                read == ran /\ output # ""
                started == IF proc_state = "Starting" /\ launched
                           THEN manage_proc("Running", prog_bar)
                           ELSE prog_bar
                died == IF ran THEN manage_proc("Running", started) ELSE started
            IN  /\ proc_state' = "NotRunning"
                /\ proc_args' = NoArgs
                /\ exit_code' = IF ran THEN code ELSE exit_code
                /\ prog_bar' = manage_proc("NotRunning", died)
                /\ log_win' = IF read THEN Append(log_win, output) ELSE log_win
                /\ job_notes' = job_notes \o <<"close">>
                       \o (IF proc_state = "Starting" /\ launched
                           THEN <<"Running">> ELSE <<>>)
                       \o (IF read THEN <<"output">> ELSE <<>>)
                       \o (IF ran THEN <<"Running">> ELSE <<>>)
                       \o <<"NotRunning">>
    /\ UNCHANGED <<fileVars, new_fnt_name, gen_ttf_btn, font_info, optVars, ff_path>>

----------------------------------------------------------------------------
(* Inputs.  Every specification below runs the same handlers; they differ  *)
(* in what the user and the child process are allowed to feed them, so     *)
(* that each part of the window is explored in full against a simple       *)
(* instance of the rest.                                                   *)

Styles == {SEL_NONE, SEL_REGULAR, SEL_ITALIC, SEL_BOLD, SEL_BOLDITALIC}

\* font files, as directory and file name, each a sequence of tokens
FilePaths ==
    {[dir |-> <<"Bold">>, name |-> <<"x">>],
     [dir |-> <<"fonts">>, name |-> <<"A", "Bold">>]}

OnePath == {[dir |-> <<"fonts">>, name |-> <<"A", "Bold">>]}

\* what one Load Fonts dialog can return: up to n distinct files, or nothing
Loads(paths, n) ==
    {f \in UNION {[1..k -> paths] : k \in 0..n} :
        \A i, j \in 1..Len(f) : i # j => f[i] # f[j]}

\* family names, as sequences of characters
Names == {<<>>, <<"a">>, <<"a", "/">>}
OneName == {<<"a">>}

Dirs == {"out"}
Chunks == {"out", "err"}
ExitCodes == {0, 2}

OutputLeft == Len(SelectSeq(job_notes, LAMBDA n : n = "output")) < MaxOutput

\* the slider positions the user moves to
SliderValues == {DarkenMin, DarkenDefault, DarkenMax}

\* the family name, the options, the generation request and the process
\* supervision in full, with one font file to load
Next ==
    \/ \E f \in Loads(OnePath, 1) : load_fonts(f)
    \/ \E name \in Names : set_family_name(name)
    \/ set_darken_opt
    \/ \E amount \in SliderValues : move_darken_amount(amount)
    \/ set_mod_bearing
    \/ \E path \in FFPaths \cup {""} : gen_ttf_click(path)
    \/ \E dir \in Dirs \cup {""} : gen_ttf_dir(dir)
    \/ ProcStarted
    \/ ProcFailedToStart
    \/ \E output \in Chunks : OutputLeft /\ read_proc_output(output)
    \/ \E code \in ExitCodes : ProcFinished(code)
    \/ \E code \in ExitCodes : ProcCrashed(code)
    \/ \E launched \in BOOLEAN, output \in {"", "out"}, code \in ExitCodes :
          (output # "" => OutputLeft) /\ closeEvent(launched, output, code)

Spec == Init /\ [][Next]_vars

\* fontforge was found on the PATH
InitFound == Init /\ ff_path \in FFPaths

\* the font files in full: any load and any selection of styles, with one
\* family name and a quiet child that exits with 0
NextFiles ==
    \/ \E f \in Loads(FilePaths, MaxFiles) : load_fonts(f)
    \/ \E i \in Rows, sel \in Styles : select_style(i, sel)
    \/ \E name \in OneName : set_family_name(name)
    \/ \E path \in {""} : gen_ttf_click(path)
    \/ \E dir \in Dirs \cup {""} : gen_ttf_dir(dir)
    \/ ProcStarted
    \/ ProcFinished(0)

SpecFiles == InitFound /\ [][NextFiles]_vars

\* the basic options and the hinting option in full: one file, one name, a
\* quiet child that exits with 0
NextOptions ==
    \/ \E f \in Loads(OnePath, 1) : load_fonts(f)
    \/ \E name \in OneName : set_family_name(name)
    \/ \E i \in 1..Len(BasicTexts) : toggle_basic_opt(i)
    \/ \E j \in 1..Len(HintTexts) : select_hint(j)
    \/ \E path \in {""} : gen_ttf_click(path)
    \/ \E dir \in Dirs \cup {""} : gen_ttf_dir(dir)
    \/ ProcStarted
    \/ ProcFinished(0)

SpecOptions == InitFound /\ [][NextOptions]_vars

\* file names with every combination of the style words, in several cases
\* and orders, and one with a style word in the directory only
ClassifyPaths ==
    {[dir |-> <<"Bold">>, name |-> <<"x">>],
     [dir |-> <<"fonts">>, name |-> <<"A", "Regular">>],
     [dir |-> <<"fonts">>, name |-> <<"A", "BOLD">>],
     [dir |-> <<"fonts">>, name |-> <<"a", "italic">>],
     [dir |-> <<"fonts">>, name |-> <<"A", "Italic", "bold">>],
     [dir |-> <<"fonts">>, name |-> <<"A", "Regular", "Italic">>],
     [dir |-> <<"fonts">>, name |-> <<"A", "bold", "REGULAR">>],
     [dir |-> <<"fonts">>, name |-> <<"Regular", "Bold", "Italic">>]}

\* the automatic style of loaded files: many file names, no selection by
\* hand, no generation
NextClassify ==
    \/ \E f \in Loads(ClassifyPaths, MaxFiles) : load_fonts(f)
    \/ \E name \in Names : set_family_name(name)

SpecClassify == Init /\ [][NextClassify]_vars

----------------------------------------------------------------------------
(* Properties *)

Active == proc_state \in {"Starting", "Running"}

IsPrefix(s, t) == Len(s) <= Len(t) /\ \A i \in 1..Len(s) : s[i] = t[i]

Last(s) == s[Len(s)]

\* a step of the user (no slot of cli_process ran, no job was started)
UserStep == job_notes' = job_notes

\* the job's notes without the calls of manage_proc that found it Running
\* and without the call of close()
Delivered == SelectSeq(job_notes, LAMBDA n : n \notin {"Running", "close"})

\* the last job's child ran and has exited
ChildExited == proc_state = "NotRunning" /\ \E i \in 1..Len(job_notes) : job_notes[i] = "Running"

\* what prog_bar shows once manage_proc has found the process NotRunning
FullBar == [min |-> 0, max |-> ProgMax, value |-> ProgMax]

\* C1: a generation request made while a job is Starting or Running is
\* rejected and alters nothing of the job in flight: neither the state of
\* the process, nor the arguments it runs with, nor the log delivered so far.
C1_RejectedStartAltersNothing ==
    [][(Active /\ UserStep) =>
        (proc_state' = proc_state /\ proc_args' = proc_args /\ log_win' = log_win)]_vars

\* C2: per job the notifications come as start, then outputs, then exactly
\* one terminal notification (manage_proc finding the process NotRunning),
\* which is the last one; the terminal notification is there exactly when
\* the job is over, and a job starts only when the one before has had its
\* terminal notification.
C2_NotificationOrder ==
    /\ [](job_notes # <<>> =>
            /\ Delivered[1] = "start"
            /\ \A i \in 2..Len(Delivered) :
                  /\ Delivered[i] \in {"output", "NotRunning"}
                  /\ Delivered[i] = "NotRunning" => i = Len(Delivered)
            /\ Last(Delivered) = "NotRunning" <=> proc_state = "NotRunning")
    /\ [][(job_notes' = <<"start">> /\ job_notes # <<"start">>) =>
            (job_notes = <<>> \/ Last(job_notes) = "NotRunning")]_vars

\* C2 witness: a job that wrote output and then crashed has had its start,
\* its outputs, error(Crashed) and finished, and a job that could not be
\* launched is possible too.
C2_Witness ==
    job_notes = <<"start", "Running", "output", "output", "Running", "NotRunning">>

C4_BusyWhileActive == Busy(prog_bar) <=> Active

\* C4 as amended: the busy indicator is on exactly while the process is
\* Running; it is off while it is Starting, before the first job and after
\* every job.
C4_BusyWhileRunning == Busy(prog_bar) <=> proc_state = "Running"

\* C4 witness: a second job is Starting, the bar still full from the first.
C4_Witness == proc_state = "Starting" /\ prog_bar = FullBar

\* C5: while a job is Running the log only grows: what it held before a
\* step is a prefix of what it holds after.
C5_LogAppendOnly ==
    [][(proc_state = "Running" /\ proc_state' = "Running") =>
        IsPrefix(log_win, log_win')]_vars

\* the rows of the loaded files
LoadedRows == 1..Min(Len(font_files), NumRows)

\* a step in which gen_ttf built the command and the process was spawned
Spawned == proc_state = "NotRunning" /\ proc_state' = "Starting"

\* C6: the Generate button is enabled only while the family name entered
\* is non-empty and valid.
C6_EnabledOnlyWithValidName ==
    gen_ttf_btn => (new_fnt_name # <<>> /\ valid_filename(new_fnt_name))

\* C7: the command is built and the process spawned only when at least one
\* loaded file has a style selected.
C7_SpawnOnlyWithAssignedFile ==
    [][Spawned => \E i \in LoadedRows : combo_index[i] # SEL_NONE]_vars

\* C8: whenever a command is generated, no style is selected for more than
\* one of the loaded files.
C8_SlotsUnique ==
    [][Spawned =>
        \A sel \in Styles \ {SEL_NONE} :
            Cardinality({i \in LoadedRows : combo_index[i] = sel}) <= 1]_vars

\* C9: mod_bearings is set only while darken is switched on.
C9_BearingsOnlyWithDarken == font_info.mod_bearings => darken_opt

C11_BasicOptionsFollowCheckBoxes ==
    [][Spawned => /\ font_info'.leg_kern = basic_opt[1]
                  /\ font_info'.strip_panose = basic_opt[2]
                  /\ font_info'.name_hack = basic_opt[3]]_vars

\* the hinting mode font_info holds for radio button j
HintMode(j) == <<"keep", "remove", "auto">>[j]

\* C18: the hinting mode of the configuration is keep initially and, after
\* any sequence of selections, is exactly one of keep, remove and auto and is
\* the mode of the radio button selected last.
C18_HintIsLastSelected ==
    /\ font_info.change_hint \in {"keep", "remove", "auto"}
    /\ font_info.change_hint = HintMode(hint_opt)

C18_Witness ==
    /\ hint_opt = 3
    /\ font_info.change_hint = "auto"
    /\ proc_state = "Running"
    /\ "--hint-remove" \in proc_args.flags

\* the style words in a file name, whatever their case
StyleWords(name) ==
    {Lower(name[i]) : i \in 1..Len(name)} \cap {"regular", "bold", "italic"}

\* the slot by the priority bold and italic, bold, italic, regular
BoldItalicFirst(name) ==
    LET w == StyleWords(name)
    IN  CASE {"bold", "italic"} \subseteq w -> SEL_BOLDITALIC
          [] "bold" \in w /\ "italic" \notin w -> SEL_BOLD
          [] "italic" \in w /\ "bold" \notin w -> SEL_ITALIC
          [] w = {"regular"} -> SEL_REGULAR
          [] OTHER -> SEL_NONE

\* the slot by the priority regular, bold and italic, bold, italic
RegularFirst(name) ==
    LET w == StyleWords(name)
    IN  CASE "regular" \in w -> SEL_REGULAR
          [] w = {"bold", "italic"} -> SEL_BOLDITALIC
          [] w = {"bold"} -> SEL_BOLD
          [] w = {"italic"} -> SEL_ITALIC
          [] OTHER -> SEL_NONE

\* C12 as stated: a loaded file gets its slot from its file name by the
\* priority bold and italic, then bold, then italic, then regular, else
\* unassigned; a name with regular, bold and italic gets BoldItalic.
C12_BoldItalicBeforeRegular ==
    \A i \in LoadedRows : combo_index[i] = BoldItalicFirst(FileName(font_files[i]))

\* C12, amended: a loaded file gets its slot from the file name component
\* only, whatever the case, by the priority regular, then bold and italic,
\* then bold, then italic, else unassigned; a name with regular, bold and
\* italic gets Regular.
C12_RegularBeforeBoldItalic ==
    \A i \in LoadedRows : combo_index[i] = RegularFirst(FileName(font_files[i]))

C12_Witness ==
    /\ Len(font_files) = 2
    /\ StyleWords(FileName(font_files[1])) = {"regular", "bold", "italic"}
    /\ combo_index[1] = SEL_REGULAR
    /\ Contains(font_files[2].dir, "bold")
    /\ combo_index[2] = SEL_NONE

\* the file the configuration holds for slot sel
SlotField(info, sel) ==
    CASE sel = SEL_REGULAR -> info.font_file_reg
      [] sel = SEL_ITALIC -> info.font_file_it
      [] sel = SEL_BOLD -> info.font_file_bd
      [] sel = SEL_BOLDITALIC -> info.font_file_bi

\* C13: the slot-to-file assignments handed to command generation hold only
\* files of the most recent load: a slot holds a file only if a row of the
\* loaded files has that file and that slot selected, and is empty otherwise.
C13_OnlyCurrentFiles ==
    [][Spawned =>
         \A sel \in {SEL_REGULAR, SEL_ITALIC, SEL_BOLD, SEL_BOLDITALIC} :
            SlotField(font_info', sel) # NoFile
                => \E i \in LoadedRows : /\ font_files[i] = SlotField(font_info', sel)
                                         /\ combo_index[i] = sel]_vars

\* C14: a process is spawned only with the executable path and the output
\* directory both set.  A request made while the executable is missing and
\* the user locates none ends at once, and a request whose directory dialog
\* is cancelled ends there; both spawn nothing and leave the stored
\* executable path and output directory as they were.  No step replaces a
\* stored path or directory by an empty one.
C14_SpawnNeedsPathAndDir ==
    /\ [](pc = "idle" /\ gen_ttf_btn /\ ff_path = NoPath
            => ENABLED (/\ gen_ttf_click("")
                        /\ pc' = "idle"
                        /\ UNCHANGED <<ff_path, font_info, procVars>>))
    /\ [](pc = "save_dir"
            => ENABLED (/\ gen_ttf_dir("")
                        /\ pc' = "idle"
                        /\ UNCHANGED <<ff_path, font_info, procVars>>))
    /\ [][/\ Spawned => /\ ff_path # NoPath
                        /\ font_info'.out_dir \notin {NoDir, "."}
                        /\ proc_args'.out_dir = font_info'.out_dir
          /\ ff_path # NoPath => ff_path' = ff_path
          /\ font_info'.out_dir # font_info.out_dir
               => font_info'.out_dir \notin {NoDir, "."}]_vars

C14_Witness ==
    /\ pc = "save_dir"
    /\ ff_path # NoPath
    /\ font_info.out_dir # NoDir
    /\ proc_state = "NotRunning"
    /\ job_notes # <<>>

\* the job started last has had its terminal notification
TerminalOutcome == job_notes # <<>> /\ Last(job_notes) = "NotRunning"

\* C15: after the terminal outcome of a job, whether it exited with zero,
\* exited with non-zero, crashed or failed to launch, no child is active,
\* the window takes a further generation request, and that request spawns a
\* new process once its directory is chosen.
C15_RestartAfterTerminal ==
    TerminalOutcome =>
        /\ ~Active
        /\ (pc = "idle" /\ gen_ttf_btn)
             => ENABLED (gen_ttf_click("") /\ pc' = "save_dir")
        /\ pc = "save_dir"
             => \A dir \in Dirs : ENABLED (gen_ttf_dir(dir) /\ Spawned)

C15_Witness ==
    /\ TerminalOutcome
    /\ exit_code = 2
    /\ pc = "save_dir"

\* closeEvent found the child of the last job active and closed it
Killed == \E i \in 1..Len(job_notes) : job_notes[i] = "close"

\* C16: once the close of the window is accepted no child is Starting or
\* Running, whatever the state the window was closed in: an active child
\* has been terminated and its command released before.
C16_NoChildAfterShutdown ==
    pc = "closed" => /\ proc_state = "NotRunning"
                     /\ proc_args = NoArgs
                     /\ job_notes # <<>> => Last(job_notes) = "NotRunning"

C16_Witness ==
    /\ pc = "closed"
    /\ Killed
    /\ log_win # <<>>
    /\ proc_state = "NotRunning"

C19_EnabledOnlyWithFiles ==
    /\ gen_ttf_btn => font_files # NoFiles
    /\ pc = "save_dir" => font_files # NoFiles

C19_Witness ==
    /\ gen_ttf_btn
    /\ Len(font_files) = 1
    /\ new_fnt_name = <<"a", "/">>
    /\ pc = "idle"

\* C20: whatever was loaded and selected before, a successful load leaves
\* each row of a loaded file enabled with the selection its own file name
\* gives, and every row beyond the loaded files unassigned and disabled; a
\* cancelled load leaves the rows, the file list and the state of the
\* Generate button as they were.
C20_LoadIsStateless ==
    pc = "idle" =>
        /\ \A f_f \in Loads(FilePaths, MaxFiles) \ {<<>>} :
              ENABLED (/\ load_fonts(f_f)
                       /\ font_files' = f_f
                       /\ \A i \in Rows :
                            IF i <= Len(f_f)
                            THEN /\ combo_enabled'[i]
                                 /\ combo_index'[i] = RegularFirst(FileName(f_f[i]))
                            ELSE /\ ~combo_enabled'[i]
                                 /\ combo_index'[i] = SEL_NONE)
        /\ ENABLED (load_fonts(<<>>) /\ UNCHANGED <<fileVars, gen_ttf_btn>>)

C20_Witness ==
    /\ Len(font_files) = 1
    /\ FileName(font_files[1]) = <<"x">>
    /\ combo_index = [i \in Rows |-> SEL_NONE]
    /\ font_info.font_file_it = font_files[1]
    /\ font_info.font_file_bd # NoFile

====
